---- MODULE Spec2Model ----
(***************************************************************************)
(* A model of flexiql (src/src/main.rs): a query string is parsed into a   *)
(* Query by parse_query / parse_filter and run against a CSV table by      *)
(* execute_query (apply_filter, apply_sort, truncate, select_columns).     *)
(*                                                                         *)
(* Rust strings are TLA+ strings; Option<T> is <<>> (None) or <<x>>        *)
(* (Some(x)); Vec<T> is a sequence; indices are 1-based here, 0-based in   *)
(* the source.  A Result is a record with a "status" field: "ok", "err"    *)
(* (an Err value that main returns) or "panic" (the thread aborts).        *)
(***************************************************************************)
EXTENDS Integers, Sequences, FiniteSets, TLC

(***************************************************************************)
(* Characters and the str primitives the program calls.                    *)
(***************************************************************************)

None == <<>>

Some(x) == <<x>>

\* The ASCII characters the model's strings use, in byte order.
Ascii == "\t\n\r !#$%&'()*+,-./0123456789:;<=>?@ABCDEFGHIJKLMNOPQRSTUVWXYZ[]^_abcdefghijklmnopqrstuvwxyz{|}~"

UpperChars == "ABCDEFGHIJKLMNOPQRSTUVWXYZ"

LowerChars == "abcdefghijklmnopqrstuvwxyz"

Digits == "0123456789"

\* The character of s at position i, "" past its end.
Chr(s, i) == IF i \in 1..Len(s) THEN SubSeq(s, i, i) ELSE ""

CharSet(s) == {Chr(s, i) : i \in 1..Len(s)}

IndexIn(s, c) == CHOOSE i \in 1..Len(s) : Chr(s, i) = c

\* The byte order of the characters: Rank[c] < Rank[d] iff byte c < byte d.
Rank == [c \in CharSet(Ascii) |-> IndexIn(Ascii, c)]

DigitVal == [c \in CharSet(Digits) |-> IndexIn(Digits, c) - 1]

LowerOf == [c \in CharSet(Ascii) |->
              IF c \in CharSet(UpperChars) THEN Chr(LowerChars, IndexIn(UpperChars, c)) ELSE c]

IsDigit(c) == c \in DOMAIN DigitVal

IsWhitespace(c) == c \in {" ", "\t", "\n", "\r"}

RECURSIVE to_lowercase(_)
to_lowercase(s) ==
  IF s = "" THEN "" ELSE LowerOf[Chr(s, 1)] \o to_lowercase(Tail(s))

starts_with(s, p) == Len(s) >= Len(p) /\ SubSeq(s, 1, Len(p)) = p

\* str::strip_prefix: Some(rest) when s starts with p, else None.
strip_prefix(s, p) ==
  IF starts_with(s, p) THEN <<SubSeq(s, Len(p) + 1, Len(s))>> ELSE <<>>

RECURSIVE trim_start(_)
trim_start(s) ==
  IF s # "" /\ IsWhitespace(Chr(s, 1)) THEN trim_start(Tail(s)) ELSE s

RECURSIVE trim_end(_)
trim_end(s) ==
  IF s # "" /\ IsWhitespace(Chr(s, Len(s)))
  THEN trim_end(SubSeq(s, 1, Len(s) - 1)) ELSE s

trim(s) == trim_end(trim_start(s))

\* The position of the first occurrence of p in s, 0 when there is none.
RECURSIVE FindFrom(_, _, _)
FindFrom(s, p, i) ==
  IF i + Len(p) - 1 > Len(s) THEN 0
  ELSE IF SubSeq(s, i, i + Len(p) - 1) = p THEN i
  ELSE FindFrom(s, p, i + 1)

contains(s, p) == FindFrom(s, p, 1) # 0

\* str::split(pattern): the pieces between non-overlapping matches found left
\* to right; always at least one piece.
RECURSIVE split(_, _)
split(s, p) ==
  LET i == FindFrom(s, p, 1)
  IN IF i = 0 THEN <<s>>
     ELSE <<SubSeq(s, 1, i - 1)>> \o split(SubSeq(s, i + Len(p), Len(s)), p)

\* The length of the longest prefix of s free of whitespace.
RECURSIVE WordLen(_)
WordLen(s) ==
  IF s = "" \/ IsWhitespace(Chr(s, 1)) THEN 0 ELSE 1 + WordLen(Tail(s))

RECURSIVE split_whitespace(_)
split_whitespace(s) ==
  LET t == trim_start(s)
      n == WordLen(t)
  IN IF t = "" THEN <<>>
     ELSE <<SubSeq(t, 1, n)>> \o split_whitespace(SubSeq(t, n + 1, Len(t)))

RECURSIVE join(_, _)
join(words, sep) ==
  IF words = <<>> THEN ""
  ELSE IF Len(words) = 1 THEN words[1]
  ELSE words[1] \o sep \o join(Tail(words), sep)

\* Ord for str: byte-wise lexicographic.
RECURSIVE str_cmp(_, _)
str_cmp(a, b) ==
  IF a = "" /\ b = "" THEN "Equal"
  ELSE IF a = "" THEN "Less"
  ELSE IF b = "" THEN "Greater"
  ELSE IF Rank[Chr(a, 1)] < Rank[Chr(b, 1)] THEN "Less"
  ELSE IF Rank[Chr(a, 1)] > Rank[Chr(b, 1)] THEN "Greater"
  ELSE str_cmp(Tail(a), Tail(b))

RECURSIVE AllDigits(_)
AllDigits(s) == s = "" \/ (IsDigit(Chr(s, 1)) /\ AllDigits(Tail(s)))

RECURSIVE DigitsValue(_, _)
DigitsValue(s, acc) ==
  IF s = "" THEN acc ELSE DigitsValue(Tail(s), 10 * acc + DigitVal[Chr(s, 1)])

RECURSIVE Pow10(_)
Pow10(n) == IF n = 0 THEN 1 ELSE 10 * Pow10(n - 1)

\* Longest digit strings the model evaluates exactly (TLC integers are 32-bit).
MaxDigits == 9

\* usize::MAX on a 64-bit target, as text.
UsizeMaxStr == "18446744073709551615"

RECURSIVE StripZeros(_)
StripZeros(s) == IF Len(s) > 1 /\ Chr(s, 1) = "0" THEN StripZeros(Tail(s)) ELSE s

\* str::parse::<usize>: an optional '+', then one or more digits; Err on
\* overflow.  A value beyond MaxDigits digits that fits usize is kept as
\* 10^MaxDigits: it only ever bounds a row count, which is far smaller.
parse_usize(s) ==
  LET body == IF starts_with(s, "+") THEN Tail(s) ELSE s
      z    == StripZeros(body)
  IN IF body = "" \/ ~AllDigits(body) THEN <<>>
     ELSE IF Len(z) > Len(UsizeMaxStr) THEN <<>>
     ELSE IF Len(z) = Len(UsizeMaxStr) /\ str_cmp(z, UsizeMaxStr) = "Greater" THEN <<>>
     ELSE IF Len(z) > MaxDigits THEN <<Pow10(MaxDigits)>>
     ELSE <<DigitsValue(z, 0)>>

RECURSIVE DigitRun(_)
DigitRun(s) == IF s = "" \/ ~IsDigit(Chr(s, 1)) THEN 0 ELSE 1 + DigitRun(Tail(s))

Fin(m, e) == Some([kind |-> "fin", m |-> m, e |-> e])

HasSign(s) == starts_with(s, "-") \/ starts_with(s, "+")

SignOf(s) == IF starts_with(s, "-") THEN -1 ELSE 1

Unsigned(s) == IF HasSign(s) THEN Tail(s) ELSE s

\* The exponent digits edig after (e|E)[+-].
ParseExpDigits(sgn, mant, nf, esgn, edig) ==
  IF edig = "" \/ ~AllDigits(edig) THEN None
  ELSE Fin(sgn * DigitsValue(mant, 0), esgn * DigitsValue(edig, 0) - nf)

\* What follows the mantissa digits mant (nf of them after the point).
ParseExponent(sgn, mant, nf, rest) ==
  IF mant = "" THEN None
  ELSE IF rest = "" THEN Fin(sgn * DigitsValue(mant, 0), 0 - nf)
  ELSE IF Chr(rest, 1) \in {"e", "E"}
  THEN ParseExpDigits(sgn, mant, nf, SignOf(Tail(rest)), Unsigned(Tail(rest)))
  ELSE None

\* body has ni integer digits, a point, then nf fraction digits.
ParseFraction(sgn, body, ni, nf) ==
  ParseExponent(sgn, SubSeq(body, 1, ni) \o SubSeq(body, ni + 2, ni + 1 + nf), nf,
                SubSeq(body, ni + 2 + nf, Len(body)))

\* body starts with ni integer digits.
ParseMantissa(sgn, body, ni) ==
  IF Chr(body, ni + 1) = "."
  THEN ParseFraction(sgn, body, ni, DigitRun(SubSeq(body, ni + 2, Len(body))))
  ELSE ParseExponent(sgn, SubSeq(body, 1, ni), 0, SubSeq(body, ni + 1, Len(body)))

ParseUnsigned(sgn, body, low) ==
  IF low = "nan" THEN Some([kind |-> "nan", m |-> 0, e |-> 0])
  ELSE IF low \in {"inf", "infinity"} THEN Some([kind |-> "inf", m |-> sgn, e |-> 0])
  ELSE ParseMantissa(sgn, body, DigitRun(body))

\* str::parse::<f64>: [+-] then nan | inf | infinity (any case), or
\* digits [. digits] [(e|E) [+-] digits] with at least one mantissa digit.
\* A finite value is kept exactly, as m * 10^e (short decimal strings map
\* to distinct doubles, so the comparisons agree with f64's).
parse_f64(s) == ParseUnsigned(SignOf(s), Unsigned(s), to_lowercase(Unsigned(s)))

Signum(n) == IF n > 0 THEN 1 ELSE IF n < 0 THEN -1 ELSE 0

IntCmp(u, v) == IF u < v THEN "Less" ELSE IF u > v THEN "Greater" ELSE "Equal"

FinCmp(a, b, lo) == IntCmp(a.m * Pow10(a.e - lo), b.m * Pow10(b.e - lo))

\* An infinity against anything that is not NaN: only the signs count.
Magnitude(a) == IF a.kind = "inf" THEN 2 * a.m ELSE Signum(a.m)

\* f64::partial_cmp: None when either side is NaN.
f64_partial_cmp(a, b) ==
  IF a.kind = "nan" \/ b.kind = "nan" THEN None
  ELSE IF a.kind = "fin" /\ b.kind = "fin"
  THEN Some(FinCmp(a, b, IF a.e < b.e THEN a.e ELSE b.e))
  ELSE Some(IntCmp(Magnitude(a), Magnitude(b)))

(***************************************************************************)
(* The parser: parse_filter and parse_query.                               *)
(***************************************************************************)

Ok(v) == [status |-> "ok", value |-> v]

Err(msg) == [status |-> "err", value |-> msg]

Panic(msg) == [status |-> "panic", value |-> msg]

\* The ? operator: an Err (or a panic) leaves the function at once, an Ok
\* value goes on into the rest of it.
Try(r, rest(_)) == IF r.status = "ok" THEN rest(r.value) ELSE r

\* Option::unwrap.
unwrap(opt) ==
  IF opt = None THEN Panic("called Option::unwrap() on a None value") ELSE Ok(opt[1])

\* ResolveOperator without the length guards of its first two arms.
ResolveOperator_NoLenGuard(words) ==
  IF words[2] = "greater" /\ words[3] = "than"
  THEN [operator |-> "greater", value_start_index |-> 3]
  ELSE IF words[2] = "less" /\ words[3] = "than"
  THEN [operator |-> "less", value_start_index |-> 3]
  ELSE IF words[2] = "equals"
  THEN [operator |-> "equals", value_start_index |-> 2]
  ELSE IF words[2] = "contains"
  THEN [operator |-> "contains", value_start_index |-> 2]
  ELSE [operator |-> words[2], value_start_index |-> 2]

\* The (operator, value_start_index) pair that parse_filter resolves from the
\* words of a stage of at least 3 words (value_start_index is 0-based).
ResolveOperator(words) ==
  IF Len(words) >= 4 /\ words[2] = "greater" /\ words[3] = "than"
  THEN [operator |-> "greater", value_start_index |-> 3]
  ELSE IF Len(words) >= 4 /\ words[2] = "less" /\ words[3] = "than"
  THEN [operator |-> "less", value_start_index |-> 3]
  ELSE IF words[2] = "equals"
  THEN [operator |-> "equals", value_start_index |-> 2]
  ELSE IF words[2] = "contains"
  THEN [operator |-> "contains", value_start_index |-> 2]
  ELSE [operator |-> words[2], value_start_index |-> 2]

\* parse_filter from the resolved operator on.
FilterOf(filter_str, words, op) ==
  IF Len(words) <= op.value_start_index
  THEN Err("Missing value in filter: " \o filter_str)
  ELSE Ok(Some([column   |-> words[1],
                operator |-> op.operator,
                value    |-> join(SubSeq(words, op.value_start_index + 1, Len(words)), " ")]))

\* parse_filter from its words on.
FilterOfWords(filter_str, words) ==
  IF Len(words) < 3 THEN Err("Invalid filter: " \o filter_str)
  ELSE FilterOf(filter_str, words, ResolveOperator(words))

\* parse_filter: Result<Option<Filter>, String>.
parse_filter(filter_str) == FilterOfWords(filter_str, split_whitespace(filter_str))

\* The Query that parse_query starts from.
NewQuery(table_name) ==
  [table_name  |-> table_name \o ".csv",
   filter      |-> None,
   columns     |-> None,
   sort_column |-> None,
   sort_desc   |-> FALSE,
   limit       |-> None]

\* map(|s| s.trim().to_string()) over a Vec.
TrimAll(pieces) == [i \in 1..Len(pieces) |-> trim(pieces[i])]

\* The "show" arm.
ShowStage(query, part) ==
  Try(unwrap(strip_prefix(part, "show")),
      LAMBDA rest : Ok([query EXCEPT !.columns = Some(TrimAll(split(trim(rest), ",")))]))

\* The "sort" arm.
SortStage(query, words) ==
  IF Len(words) >= 2
  THEN Ok([query EXCEPT
             !.sort_column = Some(words[2]),
             !.sort_desc = IF Len(words) >= 3 /\ to_lowercase(words[3]) = "desc"
                           THEN TRUE ELSE @])
  ELSE Ok(query)

\* The "take" | "limit" arm.
LimitStage(query, words) ==
  IF Len(words) >= 2
  THEN Ok([query EXCEPT !.limit = parse_usize(words[2])])
  ELSE Ok(query)

\* The default arm.
FilterStage(query, part) ==
  Try(parse_filter(part), LAMBDA f : Ok([query EXCEPT !.filter = f]))

\* The match of parse_query on the lowercased first word kw of a stage.
MatchStage(query, part, words, kw) ==
  IF kw = "show" THEN ShowStage(query, part)
  ELSE IF kw = "sort" THEN SortStage(query, words)
  ELSE IF kw \in {"take", "limit"} THEN LimitStage(query, words)
  ELSE FilterStage(query, part)

\* One turn of the loop of parse_query, from the words of the stage on.
StageOfWords(query, part, words) ==
  IF words = <<>> THEN Ok(query)
  ELSE MatchStage(query, part, words, to_lowercase(words[1]))

\* One turn of the loop of parse_query over a stage: the Result of the turn,
\* Ok(query) when the loop goes on.
ParseStage(query, part) == StageOfWords(query, part, split_whitespace(part))

RECURSIVE ParseStages(_, _, _)
ParseStages(query, parts, i) ==
  IF i > Len(parts) THEN Ok(query)
  ELSE Try(ParseStage(query, parts[i]), LAMBDA q : ParseStages(q, parts, i + 1))

\* parse_query from the trimmed parts on.
QueryOfParts(parts) ==
  IF parts = <<>> THEN Err("Empty query")
  ELSE ParseStages(NewQuery(parts[1]), parts, 2)

\* parse_query: Result<Query, String>.
parse_query(in) == QueryOfParts(TrimAll(split(in, ">>")))

(***************************************************************************)
(* The engine: execute_query and the stages it applies.                    *)
(***************************************************************************)

\* The HashMap execute_query builds from the header row: inserting in order,
\* a repeated header keeps its last position (1-based here).
header_map(header_names) ==
  [h \in {header_names[i] : i \in 1..Len(header_names)} |->
     CHOOSE i \in 1..Len(header_names) :
       /\ header_names[i] = h
       /\ \A j \in 1..Len(header_names) : header_names[j] = h => j <= i]

\* HashMap::get(..).ok_or_else(|| format!("Column '{}' not found", ..)).
column_index(hm, column) ==
  IF column \in DOMAIN hm THEN Ok(hm[column])
  ELSE Err("Column '" \o column \o "' not found")

\* Vec::get: Some(cell) when the row has that position.
get(row, i) == IF i \in 1..Len(row) THEN Some(row[i]) ELSE None

unwrap_or(opt, default) == IF opt = None THEN default ELSE opt[1]

\* match (x.parse::<f64>(), y.parse::<f64>()): the numbers compared when
\* both parse (None for a NaN), else the strings compared.
NumericOrText(num_x, num_y, x, y) ==
  IF num_x # None /\ num_y # None
  THEN f64_partial_cmp(num_x[1], num_y[1])
  ELSE Some(str_cmp(x, y))

\* a > b and a < b on f64 are false for a NaN, as is None = Some(..) here.
Compares(x, y, ordering) ==
  NumericOrText(parse_f64(x), parse_f64(y), x, y) = Some(ordering)

\* check_condition(cell_value, operator, filter_value).
check_condition(cell_value, operator, filter_value) ==
  IF operator \in {"equals", "=", "=="}
  THEN to_lowercase(cell_value) = to_lowercase(filter_value)
  ELSE IF operator \in {"greater", ">"}
  THEN Compares(cell_value, filter_value, "Greater")
  ELSE IF operator \in {"less", "<"}
  THEN Compares(cell_value, filter_value, "Less")
  ELSE IF operator = "contains"
  THEN contains(to_lowercase(cell_value), to_lowercase(filter_value))
  ELSE FALSE

\* The closure apply_filter hands to Iterator::filter.
Keeps(cell, filter) ==
  IF cell # None THEN check_condition(cell[1], filter.operator, filter.value) ELSE FALSE

\* Iterator::filter(..).collect(): the rows kept, in order.
RECURSIVE FilterRows(_, _, _)
FilterRows(rows, filter, ci) ==
  IF rows = <<>> THEN <<>>
  ELSE (IF Keeps(get(rows[1], ci), filter) THEN <<rows[1]>> ELSE <<>>)
       \o FilterRows(Tail(rows), filter, ci)

\* apply_filter letting a missing column through, the rows unfiltered.
apply_filter_lenient(rows, filter, hm) ==
  IF filter.column \in DOMAIN hm
  THEN Ok(FilterRows(rows, filter, hm[filter.column]))
  ELSE Ok(rows)

\* apply_filter(rows, filter, header_map).
apply_filter(rows, filter, hm) ==
  Try(column_index(hm, filter.column), LAMBDA ci : Ok(FilterRows(rows, filter, ci)))

Reverse(ordering) ==
  IF ordering = "Less" THEN "Greater"
  ELSE IF ordering = "Greater" THEN "Less"
  ELSE ordering

Direction(comparison, descending) ==
  IF descending THEN Reverse(comparison) ELSE comparison

\* The closure's comparison of two cells: an Ordering, or "Panic" when
\* partial_cmp(..).unwrap() meets a NaN.
CompareCells(val_a, val_b, descending) ==
  Direction(unwrap_or(NumericOrText(parse_f64(val_a), parse_f64(val_b), val_a, val_b),
                      "Panic"),
            descending)

\* The closure apply_sort hands to sort_by.
compare(a, b, ci, descending) ==
  CompareCells(unwrap_or(get(a, ci), ""), unwrap_or(get(b, ci), ""), descending)

\* slice::sort_by on a slice of at most twenty elements is an insertion sort
\* in the standard library; its releases differ in the sort's direction.
\* "shift_left" inserts v[i] leftwards into the sorted v[..i], for i going
\* up; "insert_head" inserts v[i] rightwards into the sorted v[i+1..], for i
\* going down.  With a comparison that is a total order both give the one
\* stable sorted order; with one that is not, the order is unspecified and
\* the two may differ.
SortImpls == {"shift_left", "insert_head"}

\* v with the element at position from moved to position to.
Move(v, from, to) ==
  [k \in 1..Len(v) |->
     IF from >= to
     THEN (IF k < to \/ k > from THEN v[k] ELSE IF k = to THEN v[from] ELSE v[k - 1])
     ELSE (IF k < from \/ k > to THEN v[k] ELSE IF k = to THEN v[from] ELSE v[k + 1])]

\* Where tmp, now at position j, lands when it moves left past every v[j-1]
\* it is less than: the position, or 0 when a comparison panics.
RECURSIVE TailPos(_, _, _, _, _)
TailStep(c, v, tmp, j, ci, descending) ==
  IF c = "Panic" THEN 0
  ELSE IF c = "Less" THEN TailPos(v, tmp, j - 1, ci, descending)
  ELSE j

TailPos(v, tmp, j, ci, descending) ==
  IF j = 1 THEN 1
  ELSE TailStep(compare(tmp, v[j - 1], ci, descending), v, tmp, j, ci, descending)

RECURSIVE ShiftLeftSort(_, _, _, _)
ShiftLeftPlace(v, i, pos, ci, descending) ==
  IF pos = 0 THEN Panic("called Option::unwrap() on a None value")
  ELSE ShiftLeftSort(Move(v, i, pos), i + 1, ci, descending)

ShiftLeftSort(v, i, ci, descending) ==
  IF i > Len(v) THEN Ok(v)
  ELSE ShiftLeftPlace(v, i, TailPos(v, v[i], i, ci, descending), ci, descending)

\* Where tmp, now at position j, lands when it moves right past every v[j+1]
\* that is less than it: the position, or 0 when a comparison panics.
RECURSIVE HeadPos(_, _, _, _, _)
HeadStep(c, v, tmp, j, ci, descending) ==
  IF c = "Panic" THEN 0
  ELSE IF c = "Less" THEN HeadPos(v, tmp, j + 1, ci, descending)
  ELSE j

HeadPos(v, tmp, j, ci, descending) ==
  IF j = Len(v) THEN j
  ELSE HeadStep(compare(v[j + 1], tmp, ci, descending), v, tmp, j, ci, descending)

RECURSIVE InsertHeadSort(_, _, _, _)
InsertHeadPlace(v, i, pos, ci, descending) ==
  IF pos = 0 THEN Panic("called Option::unwrap() on a None value")
  ELSE InsertHeadSort(Move(v, i, pos), i - 1, ci, descending)

InsertHeadSort(v, i, ci, descending) ==
  IF i < 1 THEN Ok(v)
  ELSE InsertHeadPlace(v, i, HeadPos(v, v[i], i, ci, descending), ci, descending)

\* rows.sort_by(|a, b| ..) as the given release of the library runs it.
sort_by(rows, ci, descending, impl) ==
  IF impl = "shift_left" THEN ShiftLeftSort(rows, 2, ci, descending)
  ELSE InsertHeadSort(rows, Len(rows) - 1, ci, descending)

\* apply_sort(rows, sort_column, descending, header_map).
apply_sort(rows, sort_column, descending, hm, impl) ==
  Try(column_index(hm, sort_column), LAMBDA ci : sort_by(rows, ci, descending, impl))

\* truncate keeping one row too many.
truncate_off_by_one(rows, limit) ==
  IF limit + 1 < Len(rows) THEN SubSeq(rows, 1, limit + 1) ELSE rows

\* Vec::truncate(limit).
truncate(rows, limit) == IF limit < Len(rows) THEN SubSeq(rows, 1, limit) ELSE rows

\* The loop of select_columns over the requested columns: the indices, or the
\* error of the first column the header lacks.
RECURSIVE ColumnIndices(_, _, _)
ColumnIndices(columns, hm, acc) ==
  IF columns = <<>> THEN Ok(acc)
  ELSE Try(column_index(hm, columns[1]),
           LAMBDA index : ColumnIndices(Tail(columns), hm, Append(acc, index)))

\* The rows select_columns builds from the indices.
SelectedRows(rows, column_indices) ==
  [r \in 1..Len(rows) |->
     [k \in 1..Len(column_indices) |-> unwrap_or(get(rows[r], column_indices[k]), "")]]

\* select_columns(rows, columns, _header_names, header_map).
select_columns(rows, columns, header_names, hm) ==
  Try(ColumnIndices(columns, hm, <<>>),
      LAMBDA column_indices : Ok(<<columns>> \o SelectedRows(rows, column_indices)))

\* csv::Reader::from_path and the reads of the header and the records: the
\* table of the named file, or the loader's error when there is no such file.
\* The files hold well-formed CSV: every record as wide as the header.
load_table(files, table_name) ==
  IF table_name \in DOMAIN files THEN Ok(files[table_name])
  ELSE Err("No such file or directory (os error 2)")

\* if let Some(filter) = &query.filter { rows = apply_filter(..)? }
filter_stage(query, rows, hm) ==
  IF query.filter # None THEN apply_filter(rows, query.filter[1], hm) ELSE Ok(rows)

\* if let Some(sort_col) = &query.sort_column { apply_sort(..)? }
sort_stage(query, rows, hm, impl) ==
  IF query.sort_column # None
  THEN apply_sort(rows, query.sort_column[1], query.sort_desc, hm, impl)
  ELSE Ok(rows)

\* if let Some(limit) = query.limit { rows.truncate(limit) }
limit_stage(query, rows) ==
  IF query.limit # None THEN truncate(rows, query.limit[1]) ELSE rows

\* let final_rows = if let Some(columns) = &query.columns { .. } else { .. }
final_rows(query, rows, header_names, hm) ==
  IF query.columns # None
  THEN select_columns(rows, query.columns[1], header_names, hm)
  ELSE Ok(<<header_names>> \o rows)

\* The stages with the limit applied before the sort.
pipeline_limit_first(query, header_names, rows0, hm, impl) ==
  Try(filter_stage(query, rows0, hm), LAMBDA filtered :
    Try(sort_stage(query, limit_stage(query, filtered), hm, impl), LAMBDA sorted :
      final_rows(query, sorted, header_names, hm)))

\* The stages of execute_query on a loaded table, in the order of the code.
pipeline(query, header_names, rows0, hm, impl) ==
  Try(filter_stage(query, rows0, hm), LAMBDA filtered :
    Try(sort_stage(query, filtered, hm, impl), LAMBDA sorted :
      final_rows(query, limit_stage(query, sorted), header_names, hm)))

\* execute_query from the loaded table on.
run_stages(query, table, impl) ==
  pipeline(query, table.header_names, table.rows, header_map(table.header_names), impl)

\* execute_query(query): Result<Vec<Vec<String>>, Box<dyn Error>>.
execute_query(query, files, impl) ==
  Try(load_table(files, query.table_name), LAMBDA table : run_stages(query, table, impl))

(***************************************************************************)
(* print_results.                                                          *)
(***************************************************************************)

RECURSIVE repeat(_, _)
repeat(c, n) == IF n <= 0 THEN "" ELSE c \o repeat(c, n - 1)

\* format!("{:<width$}", cell): cell padded with spaces on the right.
pad(cell, width) == cell \o repeat(" ", width - Len(cell))

Max(S) == CHOOSE x \in S : \A y \in S : y <= x

\* The widths print_results computes: per column of the first row, the
\* longest cell of that column.
col_widths(results) ==
  [i \in 1..Len(results[1]) |->
     Max({0} \cup {Len(results[r][i]) : r \in {q \in 1..Len(results) : i <= Len(results[q])}})]

\* A row as print_results prints it.
row_str(row, w) == join([i \in 1..Len(row) |-> pad(row[i], w[i])], " | ")

separator(w) == join([i \in 1..Len(w) |-> repeat("-", w[i])], "-|-")

\* The lines print_results prints with the widths w.
Lines(results, w) ==
  <<row_str(results[1], w), separator(w)>>
  \o [r \in 1..(Len(results) - 1) |-> row_str(results[r + 1], w)]
  \o <<"", "(" \o ToString(Len(results) - 1) \o " rows)">>

\* print_results(results): the lines printed (colours left out), or a panic
\* when a row is longer than the first row (col_widths[i] out of bounds).
print_results(results) ==
  IF results = <<>> THEN Ok(<<"No results found.">>)
  ELSE IF \E r \in 1..Len(results) : Len(results[r]) > Len(results[1])
  THEN Panic("index out of bounds")
  ELSE Ok(Lines(results, col_widths(results)))

(***************************************************************************)
(* The inputs of the model.                                                *)
(***************************************************************************)

\* Most stages after the table reference in a query of Spec.
MaxStages == 3

\* Most data rows of a table of SpecTable.
MaxRows == 3

HeaderNames == <<"name", "age">>

\* The ages 2, 10 and 1a compare 2 < 10 (numbers), 10 < 1a and 1a < 2 (text).
RowPool ==
  {<<"Ann", "2">>, <<"Bob", "10">>, <<"an", "1a">>, <<"zed", "2">>, <<"Cy", "NaN">>}

RECURSIVE SeqsUpTo(_, _)
SeqsUpTo(S, n) ==
  IF n = 0 THEN {<<>>}
  ELSE LET shorter == SeqsUpTo(S, n - 1)
       IN shorter \cup {Append(q, x) : q \in {r \in shorter : Len(r) = n - 1}, x \in S}

Table(rows) == [header_names |-> HeaderNames, rows |-> rows]

\* The tables of SpecTable: every sequence of at most MaxRows pool rows.
Tables == {Table(rows) : rows \in SeqsUpTo(RowPool, MaxRows)}

\* The tables of Spec.
CoreTables ==
  {Table(<<>>),
   Table(<<<<"Ann", "2">>, <<"Bob", "10">>>>),
   Table(<<<<"Bob", "10">>, <<"zed", "2">>, <<"Ann", "2">>>>),
   Table(<<<<"Ann", "2">>, <<"Bob", "10">>, <<"an", "1a">>>>)}

\* The stages of the queries of Spec.
CoreStages ==
  {"show name", "show xx",
   "sort age desc", "sort name", "sort yy",
   "take 1",
   "age greater than 5", "zz = 1"}

\* The stages of the one-stage queries of SpecTable.
StagePool ==
  CoreStages \cup
  {"SHOW name", "show age , name", "Show name, age", "show name,name", "show",
   "sort", "take", "name contains an",
   "show zz", "sort age", "sort age DESC extra", "sort name asc", "sort zz",
   "limit 0", "take x", "take +2", "take -1",
   "age greater 5", "age less 5", "age less than 5", "name greater than",
   "name less than", "age equals 2", "name = ANN", "name == an", "age > 2",
   "age < 1a", "age foo 5", "age >= 2", "name Contains an", "name contains",
   "age", "name contains Ann b"}

RECURSIVE JoinStages(_, _)
JoinStages(table_ref, stages) ==
  IF stages = <<>> THEN table_ref
  ELSE JoinStages(table_ref \o " >> " \o stages[1], Tail(stages))

\* The queries of Spec: the table t and at most MaxStages core stages.
CoreInputs == {JoinStages("t", st) : st \in SeqsUpTo(CoreStages, MaxStages)}

\* The queries of SpecTable: at most one stage, and a few odd strings.
TableInputs ==
  {"t", "u", "", " t>>take 1 ", "t >> >> sort age", "t >>> take 1"}
  \cup {JoinStages("t", <<st>>) : st \in StagePool}

(***************************************************************************)
(* The program: main parses the query, executes it and prints the result.  *)
(***************************************************************************)

VARIABLES
  input,     \* cli.query
  files,     \* the CSV files on disk: file name -> table
  sortImpl,  \* the release of the standard library the program is built with
  pc,        \* where main is: "parse", "execute", "print", or how it ended
  query,     \* Some(Query) once parse_query has returned Ok
  results,   \* Some(rows) once execute_query has returned Ok
  error,     \* Some(message) once main has returned an Err or panicked
  output     \* the lines print_results has printed

vars == <<input, files, sortImpl, pc, query, results, error, output>>

Start ==
  /\ pc = "parse"
  /\ query = None
  /\ results = None
  /\ error = None
  /\ output = <<>>

Init ==
  /\ input \in CoreInputs
  /\ files \in {[n \in {"t.csv"} |-> t] : t \in CoreTables}
  /\ sortImpl \in SortImpls
  /\ Start

InitTable ==
  /\ input \in TableInputs
  /\ files \in {[n \in {"t.csv"} |-> t] : t \in Tables}
  /\ sortImpl \in SortImpls
  /\ Start

\* How main ends on a Result that is not Ok.
Ended(r) == IF r.status = "panic" THEN "panicked" ELSE "failed"

\* main goes on to next with the Ok value in its variable, or ends.
Returns(r, next) ==
  /\ pc' = IF r.status = "ok" THEN next ELSE Ended(r)
  /\ error' = IF r.status = "ok" THEN error ELSE Some(r.value)
  /\ query' = IF r.status = "ok" /\ next = "execute" THEN Some(r.value) ELSE query
  /\ results' = IF r.status = "ok" /\ next = "print" THEN Some(r.value) ELSE results
  /\ output' = IF r.status = "ok" /\ next = "done" THEN r.value ELSE output
  /\ UNCHANGED <<input, files, sortImpl>>

\* let query = parse_query(&cli.query)?;
ParseQuery ==
  /\ pc = "parse"
  /\ Returns(parse_query(input), "execute")

\* let results = execute_query(query)?;
ExecuteQuery ==
  /\ pc = "execute"
  /\ Returns(execute_query(query[1], files, sortImpl), "print")

\* print_results(results); Ok(())
PrintResults ==
  /\ pc = "print"
  /\ Returns(print_results(results[1]), "done")

Next == ParseQuery \/ ExecuteQuery \/ PrintResults

Spec == Init /\ [][Next]_vars

SpecTable == InitTable /\ [][Next]_vars

(***************************************************************************)
(* Properties.                                                             *)
(***************************************************************************)

\* The stages of the query as parse_query sees them.
Parts == TrimAll(split(input, ">>"))

StageParts == Tail(Parts)

\* The arm of the match of parse_query a stage falls in.
StageKind(part) ==
  LET words == split_whitespace(part)
      kw    == IF words = <<>> THEN "" ELSE to_lowercase(words[1])
  IN IF words = <<>> THEN "empty"
     ELSE IF kw = "show" THEN "show"
     ELSE IF kw = "sort" THEN "sort"
     ELSE IF kw \in {"take", "limit"} THEN "limit"
     ELSE "filter"

HasStage(kind) == \E i \in 1..Len(StageParts) : StageKind(StageParts[i]) = kind

\* The last stage of the query of the given kind.
LastPart(kind) ==
  StageParts[Max({i \in 1..Len(StageParts) : StageKind(StageParts[i]) = kind})]

\* parse_query has returned Ok.
Parsed == query # None

\* execute_query has returned Ok.
Executed == results # None

TheTable == files[query[1].table_name]

TableLoaded == Parsed /\ pc # "execute" /\ query[1].table_name \in DOMAIN files

DataRows(res) == Tail(res)

Min(a, b) == IF a < b THEN a ELSE b

ReverseSeq(q) == [i \in 1..Len(q) |-> q[Len(q) + 1 - i]]

Perms(n) == {f \in [1..n -> 1..n] : \A i, j \in 1..n : f[i] = f[j] => i = j}

Permuted(q, f) == [i \in 1..Len(q) |-> q[f[i]]]

\* The program run on another query string, same files, same build.
RunQuery(in) ==
  Try(parse_query(in), LAMBDA q : execute_query(q, files, sortImpl))

\* filter, then sort, then limit, then projection, each when the Query has it.
FixedOrder(q, t, impl) ==
  LET hm        == header_map(t.header_names)
      filtered  == IF q.filter = None THEN t.rows
                   ELSE apply_filter(t.rows, q.filter[1], hm).value
      sorted    == IF q.sort_column = None THEN filtered
                   ELSE apply_sort(filtered, q.sort_column[1], q.sort_desc, hm, impl).value
      limited   == IF q.limit = None THEN sorted ELSE truncate(sorted, q.limit[1])
  IN IF q.columns = None THEN <<t.header_names>> \o limited
     ELSE select_columns(limited, q.columns[1], t.header_names, hm).value

DistinctKinds(st) ==
  \A i, j \in 1..Len(st) : i # j => StageKind(st[i]) # StageKind(st[j])

\* C1: when execution succeeds, the result is the table filtered, then
\* sorted, then cut to the limit, then projected, and writing the stages of
\* the query in any other order gives the same result.
C1_FixedStageOrder ==
  Executed =>
    /\ results[1] = FixedOrder(query[1], TheTable, sortImpl)
    /\ DistinctKinds(StageParts) =>
         \A f \in Perms(Len(StageParts)) :
           RunQuery(JoinStages(Parts[1], Permuted(StageParts, f))) = Ok(results[1])

\* C1's case: the limit written before the sort, both after a projection that
\* drops the sort column.
C1_Witness ==
  /\ pc = "done"
  /\ input = "t >> show name >> take 1 >> sort age desc"
  /\ Len(TheTable.rows) >= 2
  /\ results = Some(<<<<"name">>, <<"Bob">>>>)

\* The stages that are the last of their kind, in order.
RECURSIVE KeepLast(_)
KeepLast(st) ==
  IF st = <<>> THEN <<>>
  ELSE (IF \E j \in 2..Len(st) : StageKind(st[j]) = StageKind(st[1])
        THEN <<>> ELSE <<st[1]>>) \o KeepLast(Tail(st))

\* C2: the Query parse_query returns is the one the last stage of each kind
\* alone would produce.
C2_LastStageOfEachKindWins ==
  Parsed => Ok(query[1]) = parse_query(JoinStages(Parts[1], KeepLast(StageParts)))

\* The operator words the Filter Expression Parser and the symbols the
\* evaluator are said to recognise.
RecognizedOperator(words) ==
  \/ words[2] \in {"equals", "contains"}
  \/ Len(words) >= 4 /\ words[2] \in {"greater", "less"} /\ words[3] = "than"
  \/ words[2] \in {"=", "==", ">", "<"}

\* C3: a filter stage whose operator word is not recognised matches no row.
C3_UnrecognizedOperatorNeverMatches ==
  (Executed /\ HasStage("filter") /\ ~RecognizedOperator(split_whitespace(LastPart("filter"))))
    => DataRows(results[1]) = <<>>

\* Largest limit the limit property is tried with.
MaxLimit == 4

WithLimit(limit) == execute_query([query[1] EXCEPT !.limit = limit], files, sortImpl)

\* The header row and the first min(n, m) data rows of a result of m data rows.
FirstRows(res, n) == SubSeq(res, 1, 1 + Min(n, Len(res) - 1))

\* C4: with a limit n the result is the header and the first min(n, m) data
\* rows of the result without the limit, in the same order.
C4_LimitIsPrefix ==
  Executed =>
    /\ WithLimit(None).status = "ok"
    /\ \A n \in 0..MaxLimit :
         WithLimit(Some(n)) = Ok(FirstRows(WithLimit(None).value, n))
    /\ query[1].limit # None =>
         results[1] = FirstRows(WithLimit(None).value, query[1].limit[1])

\* C4's case: a limit of 1 on a sorted table of three rows.
C4_Witness ==
  /\ pc = "done"
  /\ input = "t >> sort name >> take 1"
  /\ Len(TheTable.rows) = 3
  /\ Len(results[1]) = 2
  /\ Len(WithLimit(None).value) = 4

\* The query is a sort and nothing else, and it ran.
SortOnly ==
  /\ Executed
  /\ query[1].sort_column # None
  /\ query[1].filter = None
  /\ query[1].limit = None
  /\ query[1].columns = None

SortIndex == header_map(TheTable.header_names)[query[1].sort_column[1]]

\* Two rows whose sort cells compare equal.
Tie(a, b) == compare(a, b, SortIndex, FALSE) = "Equal"

\* The rows cut into the longest runs of neighbours that tie.
RECURSIVE Groups(_)
Groups(rows) ==
  IF rows = <<>> THEN <<>>
  ELSE LET g == Groups(Tail(rows))
       IN IF g # <<>> /\ Tie(rows[1], g[1][1])
          THEN <<<<rows[1]>> \o g[1]>> \o Tail(g)
          ELSE <<<<rows[1]>>>> \o g

RECURSIVE Flatten(_)
Flatten(groups) == IF groups = <<>> THEN <<>> ELSE groups[1] \o Flatten(Tail(groups))

RECURSIVE TiesOf(_, _)
TiesOf(rows, x) ==
  IF rows = <<>> THEN <<>>
  ELSE (IF Tie(rows[1], x) THEN <<rows[1]>> ELSE <<>>) \o TiesOf(Tail(rows), x)

Sorted(descending) ==
  execute_query([query[1] EXCEPT !.sort_desc = descending], files, sortImpl)

\* C5: descending is ascending with the tie-groups in reverse order, the rows
\* of a tie-group in their original order both ways; without ties it is the
\* exact reverse.
C5_DescendingReversesTieGroups ==
  (SortOnly /\ Sorted(FALSE).status = "ok" /\ Sorted(TRUE).status = "ok") =>
    LET asc  == DataRows(Sorted(FALSE).value)
        desc == DataRows(Sorted(TRUE).value)
        rows == TheTable.rows
    IN /\ desc = Flatten(ReverseSeq(Groups(asc)))
       /\ \A i \in 1..Len(rows) :
            /\ TiesOf(asc, rows[i]) = TiesOf(rows, rows[i])
            /\ TiesOf(desc, rows[i]) = TiesOf(rows, rows[i])
       /\ (\A i, j \in 1..Len(rows) : i # j => ~Tie(rows[i], rows[j]))
            => desc = ReverseSeq(asc)

FilterColumnMissing ==
  /\ TableLoaded
  /\ query[1].filter # None
  /\ query[1].filter[1].column \notin DOMAIN header_map(TheTable.header_names)

\* C6: a filter on a column the table lacks makes execute_query fail with the
\* column-not-found error of that column, whatever the sort and projection
\* stages name, and no rows are returned.
C6_MissingFilterColumnFailsFirst ==
  FilterColumnMissing =>
    /\ pc = "failed"
    /\ error = Some("Column '" \o query[1].filter[1].column \o "' not found")
    /\ results = None
    /\ output = <<>>

\* C6's case: the filter column, the sort column and the projected column
\* are all missing, and the filter is written last.
C6_Witness ==
  /\ pc = "failed"
  /\ input = "t >> show xx >> sort yy >> zz = 1"
  /\ error = Some("Column 'zz' not found")

\* The text after the four letters of the keyword, split on commas, trimmed.
ExpectedColumns(part) == TrimAll(split(trim(SubSeq(part, 5, Len(part))), ","))

\* C7: a stage whose first word lowercases to show never makes parse_query
\* abort, and the projection list is the text after the keyword split on
\* commas, each piece trimmed.
C7_ShowAnyCaseIsProjection ==
  HasStage("show") =>
    /\ ~(pc = "panicked" /\ query = None)
    /\ Parsed => query[1].columns = Some(ExpectedColumns(LastPart("show")))

\* C8: for one missing column, the errors of the filter stage, of the sort
\* stage and of the projection stage differ from one another.
C8_ErrorNamesTheStage ==
  FilterColumnMissing =>
    LET c    == query[1].filter[1].column
        hm   == header_map(TheTable.header_names)
        byFilter == apply_filter(TheTable.rows, query[1].filter[1], hm)
        bySort   == apply_sort(TheTable.rows, c, FALSE, hm, sortImpl)
        byShow   == select_columns(TheTable.rows, <<c>>, TheTable.header_names, hm)
    IN /\ error = Some(byFilter.value)
       /\ byFilter.value # bySort.value
       /\ byFilter.value # byShow.value
       /\ bySort.value # byShow.value

\* C9: after an ascending sort the output is a permutation of the rows in
\* which no later row compares less than an earlier one.
C9_AscendingOutputIsOrdered ==
  (SortOnly /\ ~query[1].sort_desc) =>
    LET out == DataRows(results[1])
    IN /\ \E f \in Perms(Len(TheTable.rows)) : out = Permuted(TheTable.rows, f)
       /\ \A i, j \in 1..Len(out) :
            i < j => compare(out[j], out[i], SortIndex, FALSE) # "Less"

\* What parse_filter is said to return for a stage.
FilterContract(part) ==
  LET words == split_whitespace(part)
      r     == parse_filter(part)
  IN IF Len(words) < 3 THEN r = Err("Invalid filter: " \o part)
     ELSE /\ r.status = "ok"
          /\ r.value # None
          /\ r.value[1].value # ""
          /\ Len(words) = 3 => r.value[1] = [column   |-> words[1],
                                             operator |-> words[2],
                                             value    |-> words[3]]

\* C10: parse_filter never returns the missing-value error: a stage of fewer
\* than 3 words gets the invalid-filter error, any other succeeds with a
\* non-empty literal, and main never ends on a missing-value error.
C10_NoMissingValueError ==
  /\ \A i \in 1..Len(StageParts) :
       StageKind(StageParts[i]) = "filter" => FilterContract(StageParts[i])
  /\ error # None => ~starts_with(error[1], "Missing value in filter")
  /\ (pc # "parse" /\ Len(StageParts) = 1 /\ HasStage("filter")) =>
       IF Len(split_whitespace(StageParts[1])) < 3
       THEN pc = "failed" /\ error = Some("Invalid filter: " \o StageParts[1])
       ELSE Parsed /\ query[1].filter = parse_filter(StageParts[1]).value

\* C10's case: the three-word stage that has the words of an operator and no
\* value is accepted.
C10_Witness ==
  /\ input = "t >> name greater than"
  /\ Parsed
  /\ query[1].filter = Some([column |-> "name", operator |-> "greater", value |-> "than"])

====
